---- MODULE Spec2Model ----
(***************************************************************************)
(* The mood-entry store of daily-mood-tracker: the mood_entries table and  *)
(* the five request handlers over it (createMoodEntry, getMoodEntries,     *)
(* getMoodEntryByDate, updateMoodEntry, deleteMoodEntry),                  *)
(* the statistics the MoodStats component derives from a list of entries,  *)
(* and the App component that keeps the selected date and its entry.       *)
(*                                                                         *)
(* Time is counted in quarter-days (6 hours) since the epoch; a timestamp  *)
(* is a number of milliseconds since the epoch, as a JavaScript Date is.   *)
(* A calendar date (the YYYY-MM-DD string of the wire and of the date      *)
(* column) is the number of its day since the epoch.                       *)
(***************************************************************************)
EXTENDS Integers, Sequences, FiniteSets, TLC

\* ------------------------------------------------------------------ bounds
\* rows ever inserted (the serial never goes past MaxId + 1)
MaxId == 2
\* quarter-days the clock advances in one behaviour
MaxTicks == 1
\* the request dates are the days 0..MaxDate
MaxDate == 2
\* createMoodEntry requests counted in one run
MaxRun == 3
\* callers with a request in flight at the same time
MaxProcs == 2
\* entries in the list MoodStats is given
MaxEntries == 3
\* requests of the App component in flight when the user starts another
MaxPending == 2

\* ------------------------------------------------------- values and inputs
Users == {"u1", "u2"}
Moods == {"Happy", "Sad", "Angry", "Excited", "Neutral"}
InputMoods == {"Happy", "Angry"}
Undefined == "undefined"
Null == "null"
Notes == {"", "ok"}
Dates == 0..MaxDate
Absent == <<>>
QueryDates == 0..(MaxDate - 1)
OptDates == {Absent} \cup {<<d>> : d \in QueryDates}
Ids == 1..(MaxId + 1)
MsPerDay == 24 * 60 * 60 * 1000
MsPerTick == 6 * 60 * 60 * 1000
TicksPerDay == MsPerDay \div MsPerTick

\* the behaviours start on day MaxDate - 1, at 00:00 UTC or at 18:00 UTC
StartDay == MaxDate - 1
StartTimes == {TicksPerDay * StartDay, TicksPerDay * StartDay + 3}
Procs == 1..MaxProcs
TZOffsets == {0 - 1, 0, 1}


VARIABLES
    rows,     \* the mood_entries table: a set of rows
    nextId,   \* the next value of the id column's serial
    now,      \* the current instant, in quarter-days since the epoch
    tz,       \* the server's local time minus UTC, in quarter-days
    res,      \* the response of the request that completed last
    run,      \* history: the createMoodEntry requests in a row for one (user_id, date)
    req,      \* the requests in flight, by caller (concurrent requests only)
    entries,  \* the entries prop of the MoodStats component
    stats,    \* what MoodStats computed from it when it rendered
    client    \* the state of the App component and its requests in flight

vars == <<rows, nextId, now, tz, res, run, req, entries, stats, client>>

\* ----------------------------------------------------------------- helpers
NowMs == now * MsPerTick

\* new Date("YYYY-MM-DD"): midnight UTC of that day
ParseDate(d) == d * MsPerDay

\* faulty variant: today.setHours(0, 0, 0, 0), the first millisecond of the day
EndOfTodayMidnight(t, off) ==
    LET localMs == t * MsPerTick + off * MsPerTick
        localDay == localMs \div MsPerDay
    IN  localDay * MsPerDay - off * MsPerTick

\* const today = new Date(); today.setHours(23, 59, 59, 999): the last
\* millisecond of the server's local day, as an instant
EndOfToday(t, off) ==
    LET localMs == t * MsPerTick + off * MsPerTick
        localDay == localMs \div MsPerDay
    IN  (localDay * MsPerDay + (MsPerDay - 1)) - off * MsPerTick

IsFutureDate(d, t, off) == ParseDate(d) > EndOfToday(t, off)

\* faulty variant: input.note ?? null
NoteOrNullNullish(n) == IF n \in {Undefined, Null} THEN Null ELSE n

\* input.note || null
NoteOrNull(n) == IF n \in {Undefined, Null, ""} THEN Null ELSE n

\* the row as the handlers return it: date: new Date(row.date)
ToEntry(r) == [r EXCEPT !.date = ParseDate(r.date)]

\* faulty variants: the date compared as a Date object, which matches no row
\* of a later day than day 0; the user_id condition left out
SelectByUserDateNoMatch(tbl, u, d) == {r \in tbl : r.user_id = u /\ ParseDate(r.date) = d}
SelectByUserDateAnyUser(tbl, u, d) == {r \in tbl : r.date = d}

\* select ... where user_id = u and date = d
SelectByUserDate(tbl, u, d) == {r \in tbl : r.user_id = u /\ r.date = d}

\* select ... where id = i
SelectById(tbl, i) == {r \in tbl : r.id = i}

\* faulty variant: created_at set along with updated_at
OverwriteRowResetCreated(r, in, t) ==
    [r EXCEPT !.mood = in.mood, !.note = IF in.note \in {Undefined, Null, ""} THEN Null ELSE in.note,
              !.updated_at = t, !.created_at = t]

\* faulty variant: the note of the row read earlier kept when the request has
\* none
OverwriteRowKeepNote(r, in, t) ==
    [r EXCEPT !.mood = in.mood,
              !.note = IF in.note \in {Undefined, Null, ""} THEN @ ELSE in.note,
              !.updated_at = t]

\* update ... set mood, note, updated_at where id = i (createMoodEntry)
OverwriteRow(r, in, t) ==
    [r EXCEPT !.mood = in.mood, !.note = NoteOrNull(in.note), !.updated_at = t]

\* faulty variant: the update without its where clause
UpsertUpdateNoWhere(tbl, i, in, t) ==
    {OverwriteRow(r, in, t) : r \in tbl}

UpsertUpdate(tbl, i, in, t) ==
    {IF r.id = i THEN OverwriteRow(r, in, t) ELSE r : r \in tbl}

\* faulty variant: the id taken from the number of rows in the table
NewRowCountId(i, in, t) ==
    [id |-> Cardinality(rows) + 1, user_id |-> in.user_id, date |-> in.date,
     mood |-> in.mood, note |-> IF in.note \in {Undefined, Null, ""} THEN Null ELSE in.note,
     created_at |-> t, updated_at |-> t]

\* insert ... values (user_id, date, mood, note), id from the serial,
\* created_at and updated_at from defaultNow()
NewRow(i, in, t) ==
    [id |-> i, user_id |-> in.user_id, date |-> in.date, mood |-> in.mood,
     note |-> NoteOrNull(in.note), created_at |-> t, updated_at |-> t]

\* faulty variant: if (input.note) in place of if (input.note !== undefined)
PatchRowNullAsOmitted(r, in, t) ==
    [r EXCEPT !.updated_at = t,
              !.mood = IF in.mood # Undefined THEN in.mood ELSE @,
              !.note = IF in.note \notin {Undefined, Null, ""} THEN in.note ELSE @]

\* faulty variants: created_at set along with updated_at; updated_at set only
\* when a field is supplied
PatchRowResetCreated(r, in, t) ==
    [r EXCEPT !.updated_at = t, !.created_at = t,
              !.mood = IF in.mood # Undefined THEN in.mood ELSE @,
              !.note = IF in.note # Undefined THEN in.note ELSE @]
PatchRowKeepStamp(r, in, t) ==
    [r EXCEPT !.updated_at = IF in.mood = Undefined /\ in.note = Undefined THEN @ ELSE t,
              !.mood = IF in.mood # Undefined THEN in.mood ELSE @,
              !.note = IF in.note # Undefined THEN in.note ELSE @]

\* updateData of updateMoodEntry applied to a row
PatchRow(r, in, t) ==
    [r EXCEPT !.updated_at = t,
              !.mood = IF in.mood # Undefined THEN in.mood ELSE @,
              !.note = IF in.note # Undefined THEN in.note ELSE @]

PatchUpdate(tbl, i, in, t) ==
    {IF r.id = i THEN PatchRow(r, in, t) ELSE r : r \in tbl}

\* faulty variant: the delete without its where clause
DeleteByIdNoWhere(tbl, i) == {}

\* delete ... where id = i
DeleteById(tbl, i) == {r \in tbl : r.id # i}

\* faulty variants: the user_id condition left out; gt and lt in place of gte
\* and lte
MatchesQueryAnyUser(r, in) ==
    /\ (in.start_date # Absent => r.date >= in.start_date[1])
    /\ (in.end_date # Absent => r.date <= in.end_date[1])
MatchesQueryExclusive(r, in) ==
    /\ r.user_id = in.user_id
    /\ (in.start_date # Absent => r.date > in.start_date[1])
    /\ (in.end_date # Absent => r.date < in.end_date[1])

\* where user_id = u [and date >= start] [and date <= end]
MatchesQuery(r, in) ==
    /\ r.user_id = in.user_id
    /\ (in.start_date # Absent => r.date >= in.start_date[1])
    /\ (in.end_date # Absent => r.date <= in.end_date[1])

\* faulty variant: asc in place of desc
OrderByDateAsc(S) ==
    {s \in [1..Cardinality(S) -> S] :
        /\ \A i, j \in 1..Cardinality(S) : i # j => s[i] # s[j]
        /\ \A i, j \in 1..Cardinality(S) : i < j => s[i].date <= s[j].date}

\* order by date desc: the orders the database may return the set S in
OrderByDateDesc(S) ==
    {s \in [1..Cardinality(S) -> S] :
        /\ \A i, j \in 1..Cardinality(S) : i # j => s[i] # s[j]
        /\ \A i, j \in 1..Cardinality(S) : i < j => s[i].date >= s[j].date}

MapEntries(s) == [i \in 1..Len(s) |-> ToEntry(s[i])]

Response(op, in, err, out) == [op |-> op, in |-> in, err |-> err, out |-> out]

\* ----------------------------------------------------------------- actions
\* createMoodEntry(in) run from its first line to its return or throw
CreateMoodEntry(in) ==
    IF IsFutureDate(in.date, now, tz)
    THEN /\ res' = Response("create", in, "future", <<>>)
         /\ UNCHANGED <<rows, nextId, now, tz>>
    ELSE LET existing == SelectByUserDate(rows, in.user_id, in.date)
         IN  IF existing # {}
             THEN \E e \in existing :
                    /\ rows' = UpsertUpdate(rows, e.id, in, NowMs)
                    /\ res' = Response("create", in, "none",
                                       MapEntries(<<OverwriteRow(e, in, NowMs)>>))
                    /\ UNCHANGED <<nextId, now, tz>>
             ELSE /\ nextId <= MaxId
                  /\ rows' = rows \cup {NewRow(nextId, in, NowMs)}
                  /\ nextId' = nextId + 1
                  /\ res' = Response("create", in, "none",
                                     MapEntries(<<NewRow(nextId, in, NowMs)>>))
                  /\ UNCHANGED <<now, tz>>

\* faulty variant: the update without the existence check before it
UpdateMoodEntryNoCheck(in) ==
    /\ rows' = PatchUpdate(rows, in.id, in, NowMs)
    /\ IF SelectById(rows, in.id) = {}
       THEN res' = Response("update", in, "TypeError", <<>>)
       ELSE \E r \in SelectById(PatchUpdate(rows, in.id, in, NowMs), in.id) :
                res' = Response("update", in, "none", MapEntries(<<r>>))
    /\ UNCHANGED <<nextId, now, tz>>

\* updateMoodEntry(in) run from its first line to its return or throw
UpdateMoodEntry(in) ==
    LET existing == SelectById(rows, in.id)
    IN  IF existing = {}
        THEN /\ res' = Response("update", in, "notfound", <<>>)
             /\ UNCHANGED <<rows, nextId, now, tz>>
        ELSE /\ rows' = PatchUpdate(rows, in.id, in, NowMs)
             /\ \E r \in SelectById(PatchUpdate(rows, in.id, in, NowMs), in.id) :
                    res' = Response("update", in, "none", MapEntries(<<r>>))
             /\ UNCHANGED <<nextId, now, tz>>

\* faulty variant: success returned whatever the delete removed
DeleteMoodEntryNoCheck(in) ==
    /\ rows' = DeleteById(rows, in.id)
    /\ res' = Response("delete", in, "none", <<>>)
    /\ UNCHANGED <<nextId, now, tz>>

\* deleteMoodEntry(in)
DeleteMoodEntry(in) ==
    IF SelectById(rows, in.id) = {}
    THEN /\ res' = Response("delete", in, "notfound", <<>>)
         /\ UNCHANGED <<rows, nextId, now, tz>>
    ELSE /\ rows' = DeleteById(rows, in.id)
         /\ res' = Response("delete", in, "none", <<>>)
         /\ UNCHANGED <<nextId, now, tz>>

\* getMoodEntries(in)
GetMoodEntries(in) ==
    \E s \in OrderByDateDesc({r \in rows : MatchesQuery(r, in)}) :
        /\ res' = Response("list", in, "none", MapEntries(s))
        /\ UNCHANGED <<rows, nextId, now, tz>>

\* getMoodEntryByDate(in): results[0], or null (the empty sequence) when there is none
GetMoodEntryByDate(in) ==
    LET results == SelectByUserDate(rows, in.user_id, in.date)
    IN  /\ IF results = {}
           THEN res' = Response("byDate", in, "none", <<>>)
           ELSE \E r \in results :
                    res' = Response("byDate", in, "none", MapEntries(<<r>>))
        /\ UNCHANGED <<rows, nextId, now, tz>>

\* the clock advances by a quarter of a day
Tick ==
    /\ res = Response("none", <<>>, "none", <<>>)
    /\ \E s \in StartTimes : s <= now /\ now < s + MaxTicks
    /\ now' = now + 1
    /\ UNCHANGED <<rows, nextId, tz, res, run, req, entries, stats, client>>

\* ------------------------------------------------------ the request inputs
CreateInputs ==
    [user_id : Users, date : Dates, mood : InputMoods,
     note : Notes \cup {Undefined, Null}]

UpdateInputs ==
    [id : Ids, mood : InputMoods \cup {Undefined},
     note : {"ok", Undefined, Null}]

DeleteInputs == [id : Ids]

QueryInputs == [user_id : Users, start_date : OptDates, end_date : OptDates]

ByDateInputs == [user_id : Users, date : Dates]

NoRun ==
    [n |-> 0, user_id |-> "", date |-> 0, id |-> 0, created_at |-> 0,
     mood |-> "", note |-> ""]
NoResponse == Response("none", <<>>, "none", <<>>)
NoRequest == [pc |-> "idle"]
\* the App component is not mounted
NoClient == [selectedDate |-> 0, selectedEntry |-> <<>>, pending |-> {}]
\* MoodStats has not rendered
NoStats ==
    [rendered |-> FALSE, mostCommonMood |-> "", currentStreak |-> 0,
     thisWeekEntries |-> <<>>, previousWeekEntries |-> <<>>,
     trendDirection |-> ""]

\* an empty table, at the instant t
InitAt(t) ==
    /\ rows = {}
    /\ nextId = 1
    /\ now = t
    /\ tz \in TZOffsets
    /\ res = NoResponse
    /\ run = NoRun
    /\ req = [p \in Procs |-> NoRequest]
    /\ entries = <<>>
    /\ stats = NoStats
    /\ client = NoClient

Init == InitAt(TicksPerDay * StartDay)

InitClock == \E t \in StartTimes : InitAt(t)

\* A caller sends its next request once the response to the last one has
\* reached it.
Idle == res = NoResponse

\* the response reaches the caller
Deliver ==
    /\ ~Idle
    /\ res' = NoResponse
    /\ UNCHANGED <<rows, nextId, now, tz, run, req, entries, stats, client>>

\* -------------------- Spec: the five requests, one at a time, at one instant
Create ==
    /\ Idle
    /\ \E in \in CreateInputs : CreateMoodEntry(in)
    /\ UNCHANGED <<run, req, entries, stats, client>>

Update ==
    /\ Idle
    /\ \E in \in UpdateInputs : UpdateMoodEntry(in)
    /\ UNCHANGED <<run, req, entries, stats, client>>

Delete ==
    /\ Idle
    /\ \E in \in DeleteInputs : DeleteMoodEntry(in)
    /\ UNCHANGED <<run, req, entries, stats, client>>

List ==
    /\ Idle
    /\ \E in \in QueryInputs : GetMoodEntries(in)
    /\ UNCHANGED <<run, req, entries, stats, client>>

ByDate ==
    /\ Idle
    /\ \E in \in ByDateInputs : GetMoodEntryByDate(in)
    /\ UNCHANGED <<run, req, entries, stats, client>>

Next ==
    \/ Create
    \/ Update
    \/ Delete
    \/ List
    \/ ByDate
    \/ Deliver

Spec == Init /\ [][Next]_vars

\* ------- SpecUpsert: createMoodEntry requests one after another, the clock
\* advancing between them, and getMoodEntryByDate
UpsertInputs ==
    [user_id : Users, date : {StartDay}, mood : InputMoods,
     note : Notes \cup {Undefined, Null}]

\* the run of successful createMoodEntry requests for one (user_id, date):
\* how many there were, what the first returned and what the last was given
NextRun(r, resp) ==
    IF resp.err # "none" THEN r
    ELSE IF r.n > 0 /\ r.user_id = resp.in.user_id /\ r.date = resp.in.date
         THEN [r EXCEPT !.n = @ + 1, !.mood = resp.in.mood, !.note = resp.in.note]
         ELSE [n |-> 1, user_id |-> resp.in.user_id, date |-> resp.in.date,
               id |-> resp.out[1].id, created_at |-> resp.out[1].created_at,
               mood |-> resp.in.mood, note |-> resp.in.note]

UpsertCreate ==
    /\ Idle
    /\ run.n < MaxRun
    /\ \E in \in UpsertInputs : CreateMoodEntry(in)
    /\ run' = NextRun(run, res')
    /\ UNCHANGED <<req, entries, stats, client>>

UpsertByDate ==
    /\ Idle
    /\ \E in \in ByDateInputs : GetMoodEntryByDate(in)
    /\ UNCHANGED <<run, req, entries, stats, client>>

NextUpsert ==
    \/ UpsertCreate
    \/ UpsertByDate
    \/ Deliver
    \/ Tick

SpecUpsert == InitClock /\ [][NextUpsert]_vars

\* ---- SpecConc: createMoodEntry requests of several callers, the select and
\* the write of each a step of its own
ConcInputs ==
    [user_id : {"u1"}, date : {StartDay, MaxDate}, mood : InputMoods,
     note : {Undefined, "ok"}]

InFlight == {p \in Procs : req[p].pc # "idle"}

\* lines 8-25 of createMoodEntry: the future-date guard and the select
ConcCreateSelect(p) ==
    /\ req[p].pc = "idle"
    /\ (nextId - 1) + Cardinality(InFlight) < MaxId
    /\ \E in \in ConcInputs :
        IF IsFutureDate(in.date, now, tz)
        THEN /\ res' = Response("create", in, "future", <<>>)
             /\ UNCHANGED <<rows, nextId, now, tz, run, req, entries, stats, client>>
        ELSE LET existing == SelectByUserDate(rows, in.user_id, in.date)
             IN  /\ \/ /\ existing = {}
                       /\ req' = [req EXCEPT ![p] =
                                    [pc |-> "write", in |-> in, existing |-> <<>>]]
                    \/ \E e \in existing :
                          req' = [req EXCEPT ![p] =
                                    [pc |-> "write", in |-> in, existing |-> <<e>>]]
                 /\ UNCHANGED <<rows, nextId, now, tz, run, res, entries, stats, client>>

\* lines 27-63 of createMoodEntry: the update or the insert, and the return
ConcCreateWrite(p) ==
    /\ req[p].pc = "write"
    /\ LET in == req[p].in
           existing == req[p].existing
       IN  IF Len(existing) > 0
           THEN LET result == SelectById(rows, existing[1].id)
                IN  /\ rows' = UpsertUpdate(rows, existing[1].id, in, NowMs)
                    /\ IF result = {}
                       THEN res' = Response("create", in, "TypeError", <<>>)
                       ELSE \E r \in result :
                              res' = Response("create", in, "none",
                                        MapEntries(<<OverwriteRow(r, in, NowMs)>>))
                    /\ UNCHANGED nextId
           ELSE /\ rows' = rows \cup {NewRow(nextId, in, NowMs)}
                /\ nextId' = nextId + 1
                /\ res' = Response("create", in, "none",
                                   MapEntries(<<NewRow(nextId, in, NowMs)>>))
    /\ req' = [req EXCEPT ![p] = NoRequest]
    /\ UNCHANGED <<now, tz, run, entries, stats, client>>

ConcSelect == \E p \in Procs : ConcCreateSelect(p)

ConcWrite == \E p \in Procs : ConcCreateWrite(p)

NextConc ==
    \/ ConcSelect
    \/ ConcWrite

SpecConc == InitClock /\ [][NextConc]_vars

\* ---- SpecRace: createMoodEntry, updateMoodEntry and deleteMoodEntry requests
\* of several callers on one (user_id, date); every database statement of a
\* handler is a step of its own
RaceCreateInputs ==
    [user_id : {"u1"}, date : {StartDay}, mood : InputMoods,
     note : {Undefined, "ok"}]

RaceUpdateInputs == [id : 1..MaxId, mood : {"Angry"}, note : {Undefined}]

RaceDeleteInputs == [id : 1..MaxId]

\* the createMoodEntry requests in flight that found no row and will insert
Inserting == {p \in Procs : req[p].pc = "write" /\ req[p].existing = <<>>}

\* lines 8-25 of createMoodEntry: the future-date guard and the select
RaceCreateSelect(p) ==
    /\ req[p].pc = "idle"
    /\ \E in \in RaceCreateInputs :
        IF IsFutureDate(in.date, now, tz)
        THEN /\ res' = Response("create", in, "future", <<>>)
             /\ UNCHANGED <<rows, nextId, now, tz, run, req, entries, stats, client>>
        ELSE LET existing == SelectByUserDate(rows, in.user_id, in.date)
             IN  /\ \/ /\ existing = {}
                       /\ (nextId - 1) + Cardinality(Inserting) < MaxId
                       /\ req' = [req EXCEPT ![p] =
                                    [pc |-> "write", in |-> in, existing |-> <<>>]]
                    \/ \E e \in existing :
                          req' = [req EXCEPT ![p] =
                                    [pc |-> "write", in |-> in, existing |-> <<e>>]]
                 /\ UNCHANGED <<rows, nextId, now, tz, run, res, entries, stats, client>>

\* lines 8-16 of updateMoodEntry: the select by id and the existence check
RaceUpdateCheck(p) ==
    /\ req[p].pc = "idle"
    /\ \E in \in RaceUpdateInputs :
        LET existingEntry == SelectById(rows, in.id)
        IN  IF existingEntry = {}
            THEN /\ res' = Response("update", in, "notfound", <<>>)
                 /\ UNCHANGED <<rows, nextId, now, tz, run, req, entries, stats, client>>
            ELSE /\ \E e \in existingEntry :
                       req' = [req EXCEPT ![p] = [pc |-> "update", in |-> in]]
                 /\ UNCHANGED <<rows, nextId, now, tz, run, res, entries, stats, client>>

\* lines 18-43 of updateMoodEntry: the update and the return; result[0] is
\* undefined when the update matched no row, and reading its date throws
RaceUpdateWrite(p) ==
    /\ req[p].pc = "update"
    /\ LET in == req[p].in
           result == SelectById(PatchUpdate(rows, in.id, in, NowMs), in.id)
       IN  /\ rows' = PatchUpdate(rows, in.id, in, NowMs)
           /\ IF result = {}
              THEN res' = Response("update", in, "TypeError", <<>>)
              ELSE \E r \in result :
                      res' = Response("update", in, "none", MapEntries(<<r>>))
    /\ req' = [req EXCEPT ![p] = NoRequest]
    /\ UNCHANGED <<nextId, now, tz, run, entries, stats, client>>

\* deleteMoodEntry: one statement
RaceDeleteEntry(p) ==
    /\ req[p].pc = "idle"
    /\ \E in \in RaceDeleteInputs : DeleteMoodEntry(in)
    /\ UNCHANGED <<run, req, entries, stats, client>>

RaceSelect == \E p \in Procs : RaceCreateSelect(p)

RaceCheck == \E p \in Procs : RaceUpdateCheck(p)

RaceUpdate == \E p \in Procs : RaceUpdateWrite(p)

RaceDelete == \E p \in Procs : RaceDeleteEntry(p)

NextRace ==
    \/ RaceSelect
    \/ ConcWrite
    \/ RaceCheck
    \/ RaceUpdate
    \/ RaceDelete

\* an empty table, on a server on UTC
InitRace == InitAt(TicksPerDay * StartDay) /\ tz = 0

SpecRace == InitRace /\ [][NextRace]_vars

\* ---- SpecOverwrite: createMoodEntry requests of several callers on one
\* (user_id, date) that has a row, the select and the write of each a step of
\* its own
\* the table after one createMoodEntry
InitOverwrite ==
    /\ \E in \in RaceCreateInputs : rows = {NewRow(1, in, TicksPerDay * StartDay * MsPerTick)}
    /\ nextId = 2
    /\ now = TicksPerDay * StartDay
    /\ tz = 0
    /\ res = NoResponse
    /\ run = NoRun
    /\ req = [p \in Procs |-> NoRequest]
    /\ entries = <<>>
    /\ stats = NoStats
    /\ client = NoClient

NextOverwrite ==
    \/ RaceSelect
    \/ ConcWrite

SpecOverwrite == InitOverwrite /\ [][NextOverwrite]_vars

\* ---- SpecValidate: createMoodEntry requests as the router receives them,
\* the input schema applied before the handler
\* two date strings that are no date: one of the shape YYYY-MM-DD that names
\* no calendar day (2024-13-32), one of another shape (13/32/2024)
NoSuchDay == 0 - 1
Malformed == 0 - 2
RawDates == {StartDay, NoSuchDay, Malformed}
RawMoods == InputMoods \cup {"Meh"}
RawCreateInputs ==
    [user_id : {"u1"}, date : RawDates, mood : RawMoods, note : {Undefined, "ok"}]

\* z.string().regex(/^\d{4}-\d{2}-\d{2}$/)
MatchesDateRegex(s) == s # Malformed

\* createMoodEntryInputSchema.parse(raw) succeeds
ParsesCreateInput(raw) == MatchesDateRegex(raw.date) /\ raw.mood \in Moods

\* publicProcedure.input(createMoodEntryInputSchema).mutation(createMoodEntry):
\* the schema, then the handler. For a string that names no date new Date()
\* is an Invalid Date, inputDate > today is false, and the select is sent
\* with a date literal the database refuses
RouterCreateMoodEntry(raw) ==
    IF ~ParsesCreateInput(raw)
    THEN /\ res' = Response("create", raw, "validation", <<>>)
         /\ UNCHANGED <<rows, nextId, now, tz>>
    ELSE IF raw.date = NoSuchDay
         THEN /\ res' = Response("create", raw, "database", <<>>)
              /\ UNCHANGED <<rows, nextId, now, tz>>
         ELSE CreateMoodEntry(raw)

ValidateCreate ==
    /\ Idle
    /\ \E raw \in RawCreateInputs : RouterCreateMoodEntry(raw)
    /\ UNCHANGED <<run, req, entries, stats, client>>

NextValidate ==
    \/ ValidateCreate
    \/ ByDate
    \/ Deliver

SpecValidate == Init /\ [][NextValidate]_vars

\* ---- SpecClient: the App component with the calendar form and the history
\* list over the store. A request is started by the component, answered by
\* its handler at the server and received by the component as three separate
\* steps, so that requests overlap and responses arrive in any order.
\* Requests in flight are kept as a set: two requests with the same content
\* are answered and received together.
userId == "u1"
ClientDates == {StartDay - 1, StartDay}
ClientMoods == InputMoods

\* a request of the component: what it sends (kind, date, id, mood), what
\* its continuation closed over (from, date), and the response once answered
Request(kind, from, date, id, mood) ==
    [kind |-> kind, from |-> from, date |-> date, id |-> id, mood |-> mood,
     phase |-> "sent", err |-> "none", out |-> <<>>]

\* loadMoodEntries(): getMoodEntries.query({ user_id: userId })
LoadMoodEntries == Request("list", "app", 0, 0, "")

\* loadSelectedEntry(date): getMoodEntryByDate.query({ user_id, date: dateString })
LoadSelectedEntry(date) == Request("lookup", "app", date, 0, "")

\* the form's and the history list's isLoading: their own request is in flight
Busy(from) == \E r \in client.pending : r.from = from

Start(requests) ==
    client' = [client EXCEPT !.pending = @ \cup requests]

\* Calendar onSelect: setSelectedDate(date), then the effect on selectedDate
\* runs loadSelectedEntry(selectedDate)
SelectDate ==
    /\ Cardinality(client.pending) < MaxPending
    /\ \E d \in ClientDates \ {client.selectedDate} :
        client' = [client EXCEPT !.selectedDate = d,
                                 !.pending = @ \cup {LoadSelectedEntry(d)}]
    /\ UNCHANGED <<rows, nextId, now, tz, res, run, req, entries, stats>>

\* MoodEntryForm handleSubmit up to its await: an update of existingEntry.id
\* when the form has an existing entry, a create for the date otherwise
HandleSubmit ==
    /\ Cardinality(client.pending) < MaxPending
    /\ ~Busy("form")
    /\ \E mood \in ClientMoods :
        IF client.selectedEntry # <<>>
        THEN Start({Request("update", "form", client.selectedDate,
                            client.selectedEntry[1].id, mood)})
        ELSE Start({Request("create", "form", client.selectedDate, 0, mood)})
    /\ UNCHANGED <<rows, nextId, now, tz, res, run, req, entries, stats>>

\* MoodEntryForm handleDelete up to its await
HandleDelete ==
    /\ Cardinality(client.pending) < MaxPending
    /\ ~Busy("form")
    /\ client.selectedEntry # <<>>
    /\ Start({Request("delete", "form", client.selectedDate,
                      client.selectedEntry[1].id, "")})
    /\ UNCHANGED <<rows, nextId, now, tz, res, run, req, entries, stats>>

\* MoodHistory deleteEntry(entryId) up to its await, on an entry of the list
DeleteEntry ==
    /\ Cardinality(client.pending) < MaxPending
    /\ ~Busy("history")
    /\ \E i \in 1..Len(entries) :
        Start({Request("delete", "history", 0, entries[i].id, "")})
    /\ UNCHANGED <<rows, nextId, now, tz, res, run, req, entries, stats>>

\* the router runs the handler of the request
Handle(r) ==
    IF r.kind = "list"
    THEN GetMoodEntries([user_id |-> userId, start_date |-> Absent, end_date |-> Absent])
    ELSE IF r.kind = "lookup"
    THEN GetMoodEntryByDate([user_id |-> userId, date |-> r.date])
    ELSE IF r.kind = "create"
    THEN CreateMoodEntry([user_id |-> userId, date |-> r.date,
                          mood |-> r.mood, note |-> Null])
    ELSE IF r.kind = "update"
    THEN UpdateMoodEntry([id |-> r.id, mood |-> r.mood, note |-> Null])
    ELSE DeleteMoodEntry([id |-> r.id])

\* the server answers a request; the response is on its way
Answer ==
    /\ \E r \in client.pending :
        /\ r.phase = "sent"
        /\ Handle(r)
        /\ client' = [client EXCEPT !.pending = (@ \ {r}) \cup
                        {[r EXCEPT !.phase = "done", !.err = res'.err,
                                   !.out = res'.out]}]
    /\ UNCHANGED <<run, req, entries, stats>>

\* handleMoodSaved of the render the request was started in
HandleMoodSaved(date) == {LoadMoodEntries, LoadSelectedEntry(date)}

\* the continuation after the await, on the response
Receive ==
    /\ \E r \in client.pending :
        /\ r.phase = "done"
        /\ IF r.kind = "list"
           THEN /\ entries' = r.out
                /\ client' = [client EXCEPT !.pending = @ \ {r}]
           ELSE IF r.kind = "lookup"
           THEN /\ client' = [client EXCEPT !.selectedEntry = r.out,
                                            !.pending = @ \ {r}]
                /\ UNCHANGED entries
           ELSE IF r.err # "none"
           THEN /\ client' = [client EXCEPT !.pending = @ \ {r}]
                /\ UNCHANGED entries
           ELSE IF r.kind \in {"create", "update"}
           THEN /\ client' = [client EXCEPT !.pending =
                                (@ \ {r}) \cup HandleMoodSaved(r.date)]
                /\ UNCHANGED entries
           ELSE /\ client' = [client EXCEPT !.selectedEntry = <<>>,
                                !.pending = (@ \ {r}) \cup {LoadMoodEntries}]
                /\ UNCHANGED entries
    /\ UNCHANGED <<rows, nextId, now, tz, res, run, req, stats>>

\* the component mounts on today's date with an empty store: both effects run
InitClient ==
    /\ rows = {}
    /\ nextId = 1
    /\ now = TicksPerDay * StartDay
    /\ tz = 0
    /\ res = NoResponse
    /\ run = NoRun
    /\ req = [p \in Procs |-> NoRequest]
    /\ entries = <<>>
    /\ stats = NoStats
    /\ client = [selectedDate |-> StartDay, selectedEntry |-> <<>>,
                 pending |-> {LoadMoodEntries, LoadSelectedEntry(StartDay)}]

NextClient ==
    SelectDate \/ HandleSubmit \/ HandleDelete \/ DeleteEntry \/ Answer \/ Receive

SpecClient == InitClient /\ [][NextClient]_vars

\* ---- SpecClock: createMoodEntry, updateMoodEntry and deleteMoodEntry requests
\* one after another, the clock advancing between them
ClockCreate ==
    /\ Idle
    /\ \E in \in UpsertInputs : CreateMoodEntry(in)
    /\ UNCHANGED <<run, req, entries, stats, client>>

NextClock ==
    \/ ClockCreate
    \/ Update
    \/ Delete
    \/ Deliver
    \/ Tick

SpecClock == InitClock /\ [][NextClock]_vars

\* ------------------------------------------------ the MoodStats component
\* MOOD_OPTIONS, in the order it is declared in
MOOD_OPTIONS == <<"Happy", "Sad", "Angry", "Excited", "Neutral">>

\* moodCounts[mood] || 0
MoodCount(es, m) == Cardinality({i \in 1..Len(es) : es[i].mood = m})

\* faulty variant: >= in place of > in the reduce
RECURSIVE ReduceMostCommonKeepPrev(_, _, _)
ReduceMostCommonKeepPrev(es, prev, i) ==
    IF i > Len(MOOD_OPTIONS) THEN prev
    ELSE ReduceMostCommonKeepPrev(es,
            IF MoodCount(es, prev) >= MoodCount(es, MOOD_OPTIONS[i])
            THEN prev ELSE MOOD_OPTIONS[i],
            i + 1)
MostCommonMoodKeepPrev(es) == ReduceMostCommonKeepPrev(es, MOOD_OPTIONS[1], 2)

\* moodStats.reduce((prev, current) => prev.count > current.count ? prev : current),
\* from the element of index i on
RECURSIVE ReduceMostCommon(_, _, _)
ReduceMostCommon(es, prev, i) ==
    IF i > Len(MOOD_OPTIONS) THEN prev
    ELSE ReduceMostCommon(es,
            IF MoodCount(es, prev) > MoodCount(es, MOOD_OPTIONS[i])
            THEN prev ELSE MOOD_OPTIONS[i],
            i + 1)

\* a reduce without an initial value starts from the first element
MostCommonMood(es) == ReduceMostCommon(es, MOOD_OPTIONS[1], 2)

\* [...entries].sort((a, b) => b.date - a.date): a stable sort, latest first
RECURSIVE SortByDateDesc(_)
SortByDateDesc(es) ==
    IF es = <<>> THEN <<>>
    ELSE LET rest == SortByDateDesc(Tail(es))
             k == Cardinality({i \in 1..Len(rest) : rest[i].date > Head(es).date})
         IN  SubSeq(rest, 1, k) \o <<Head(es)>> \o SubSeq(rest, k + 1, Len(rest))

\* d.setHours(0, 0, 0, 0): the start of the browser's local day the instant
\* ms is in
StartOfLocalDay(ms, off) ==
    ((ms + off * MsPerTick) \div MsPerDay) * MsPerDay - off * MsPerTick

\* the loop over sortedEntries, from index i on: the entry of index i is
\* counted when its local day is i days before today, and the loop breaks at
\* the first that is not
RECURSIVE StreakFrom(_, _, _, _)
StreakFrom(sortedEntries, i, today, off) ==
    IF i >= Len(sortedEntries) THEN 0
    ELSE IF StartOfLocalDay(sortedEntries[i + 1].date, off) = today - i * MsPerDay
         THEN 1 + StreakFrom(sortedEntries, i + 1, today, off)
         ELSE 0

CurrentStreak(es, t, off) ==
    StreakFrom(SortByDateDesc(es), 0, StartOfLocalDay(t * MsPerTick, off), off)

\* new Date() with setDate(getDate() - 7) and setDate(getDate() - 14): the
\* time of day is kept
OneWeekAgo(t) == t * MsPerTick - 7 * MsPerDay
TwoWeeksAgo(t) == t * MsPerTick - 14 * MsPerDay

InThisWeek(e, t) == e.date >= OneWeekAgo(t)
InPreviousWeek(e, t) == e.date >= TwoWeeksAgo(t) /\ e.date < OneWeekAgo(t)

ThisWeekEntries(es, t) == SelectSeq(es, LAMBDA e : InThisWeek(e, t))
PreviousWeekEntries(es, t) == SelectSeq(es, LAMBDA e : InPreviousWeek(e, t))

\* faulty variant: the scores of Sad and Angry exchanged
MoodScoresSwapped(m) ==
    CASE m = "Happy" -> 5 [] m = "Excited" -> 4 [] m = "Neutral" -> 3
      [] m = "Sad" -> 1 [] m = "Angry" -> 2 [] OTHER -> 3

\* moodScores[entry.mood] || 3
MoodScores(m) ==
    CASE m = "Happy" -> 5 [] m = "Excited" -> 4 [] m = "Neutral" -> 3
      [] m = "Sad" -> 2 [] m = "Angry" -> 1 [] OTHER -> 3

RECURSIVE TotalScore(_)
TotalScore(es) ==
    IF es = <<>> THEN 0 ELSE MoodScores(Head(es).mood) + TotalScore(Tail(es))

\* getAverageMoodScore: the quotient total / length as the pair
\* <<total, length>>, and 0 (<<0, 1>>) for no entries
GetAverageMoodScore(es) ==
    IF Len(es) = 0 THEN <<0, 1>> ELSE <<TotalScore(es), Len(es)>>

\* a > b for two quotients with positive denominators
Greater(a, b) == a[1] * b[2] > b[1] * a[2]

TrendDirection(es, t) ==
    LET thisWeekAverage == GetAverageMoodScore(ThisWeekEntries(es, t))
        previousWeekAverage == GetAverageMoodScore(PreviousWeekEntries(es, t))
    IN  IF Greater(thisWeekAverage, previousWeekAverage) THEN "up"
        ELSE IF Greater(previousWeekAverage, thisWeekAverage) THEN "down"
        ELSE "stable"

\* MoodStats({ entries }) rendered at the instant t in a browser whose local
\* time is off quarter-days ahead of UTC
MoodStats(es, t, off) ==
    [rendered |-> TRUE,
     mostCommonMood |-> MostCommonMood(es),
     currentStreak |-> CurrentStreak(es, t, off),
     thisWeekEntries |-> ThisWeekEntries(es, t),
     previousWeekEntries |-> PreviousWeekEntries(es, t),
     trendDirection |-> TrendDirection(es, t)]

\* ---- SpecStats: MoodStats rendered once, on a list of entries, at a time of
\* day and in a time zone, all drawn from small sets
\* the day the component renders on (in UTC): far enough from the epoch for
\* two weeks to lie before it
StatsDay == StartDay + 14
\* 00:00 UTC and 12:00 UTC of that day
StatsTimes == {TicksPerDay * StatsDay, TicksPerDay * StatsDay + 2}
\* the dates of the entries: tomorrow, today, the two days before, and the
\* days around the ends of the two weeks
StatsDates == {StatsDay + 1, StatsDay, StatsDay - 1, StatsDay - 2,
               StatsDay - 7, StatsDay - 8, StatsDay - 14}
StatsMoods == {"Happy", "Angry", "Neutral"}
\* the fields of a MoodEntry that MoodStats reads
StatsEntries == [date : {ParseDate(d) : d \in StatsDates}, mood : StatsMoods]
EntryLists == UNION {[1..n -> StatsEntries] : n \in 0..MaxEntries}

InitStats ==
    /\ rows = {}
    /\ nextId = 1
    /\ now \in StatsTimes
    /\ tz \in TZOffsets
    /\ res = NoResponse
    /\ run = NoRun
    /\ req = [p \in Procs |-> NoRequest]
    /\ entries \in EntryLists
    /\ stats = NoStats
    /\ client = NoClient

Render ==
    /\ ~stats.rendered
    /\ stats' = MoodStats(entries, now, tz)
    /\ UNCHANGED <<rows, nextId, now, tz, res, run, req, entries, client>>

NextStats == Render

SpecStats == InitStats /\ [][NextStats]_vars

\* ---- SpecDist: the mood distribution of MoodStats (counts and percentages)
\* on a list of entries. A percentage is a JavaScript number: an IEEE-754
\* double, computed here on its mantissa and exponent with the rounding of
\* each operation.
\* A natural number below 2^72 is three limbs of 24 bits, lowest first.
MantissaBits == 53
LimbBits == 24
Limb == 2^LimbBits
\* the bits of a 53-bit mantissa in the highest limb, less the leading one
TopLimbBits == MantissaBits - 1 - 2 * LimbBits
BigOfNat(n) == <<n, 0, 0>>
\* a * 2^k and a \div 2^k, for 0 <= k < LimbBits
BigShl(a, k) ==
    <<(a[1] % 2^(LimbBits - k)) * 2^k,
      (a[2] % 2^(LimbBits - k)) * 2^k + a[1] \div 2^(LimbBits - k),
      (a[3] % 2^(LimbBits - k)) * 2^k + a[2] \div 2^(LimbBits - k)>>
BigShr(a, k) ==
    <<a[1] \div 2^k + (a[2] % 2^k) * 2^(LimbBits - k),
      a[2] \div 2^k + (a[3] % 2^k) * 2^(LimbBits - k),
      a[3] \div 2^k>>
BigAdd(a, b) ==
    <<(a[1] + b[1]) % Limb,
      (a[2] + b[2] + (a[1] + b[1]) \div Limb) % Limb,
      (a[3] + b[3] + (a[2] + b[2] + (a[1] + b[1]) \div Limb) \div Limb) % Limb>>
\* a * n for a small n
BigTimes(a, n) ==
    <<(a[1] * n) % Limb,
      (a[2] * n + (a[1] * n) \div Limb) % Limb,
      a[3] * n + (a[2] * n + (a[1] * n) \div Limb) \div Limb>>
BigLeq(a, b) ==
    \/ a[3] < b[3]
    \/ a[3] = b[3] /\ a[2] < b[2]
    \/ a[3] = b[3] /\ a[2] = b[2] /\ a[1] <= b[1]

\* a double that is zero or positive: m * 2^(e - 52), m = 0 or 2^52 <= m < 2^53
Zero == [m |-> BigOfNat(0), e |-> 0]
\* the mantissa after a rounding carried it to 2^53
Normal(m, e) ==
    IF m[3] >= 2^(TopLimbBits + 1) THEN [m |-> BigShr(m, 1), e |-> e + 1]
    ELSE [m |-> m, e |-> e]

\* the least k with c * 2^k >= t
RECURSIVE QuotientShift(_, _, _)
QuotientShift(c, t, k) == IF c * 2^k >= t THEN k ELSE QuotientShift(c, t, k + 1)

\* the double c / t of integers 0 < c <= t: c * 2^(k + 52) divided by t limb
\* by limb, the remainder rounded to nearest, ties to even
Divide(c, t) ==
    LET k == QuotientShift(c, t, 0)
        top == c * 2^(k + TopLimbBits)
        rem3 == top % t
        rem2 == (rem3 * Limb) % t
        rem1 == (rem2 * Limb) % t
        m == <<(rem2 * Limb) \div t, (rem3 * Limb) \div t, top \div t>>
        up == 2 * rem1 > t \/ (2 * rem1 = t /\ m[1] % 2 = 1)
    IN  Normal(IF up THEN BigAdd(m, BigOfNat(1)) ELSE m, 0 - k)

\* the exact product p * 2^(e - 52), p >= 2^52, rounded to a double, ties to
\* even
RoundToDouble(p, e) ==
    LET s == CHOOSE n \in 0..(LimbBits - TopLimbBits - 1) :
                p[3] \div 2^(n + TopLimbBits) = 1
        kept == BigShr(p, s)
        dropped == p[1] % 2^s
        half == IF s = 0 THEN 1 ELSE 2^(s - 1)
        up == s > 0 /\ (dropped > half \/ (dropped = half /\ kept[1] % 2 = 1))
    IN  Normal(IF up THEN BigAdd(kept, BigOfNat(1)) ELSE kept, e + s)

\* faulty variant: the quotient not scaled to a percentage
Times100Once(x) == x

\* x * 100
Times100(x) == RoundToDouble(BigTimes(x.m, 100), x.e)

\* totalEntries > 0 ? (moodCounts[mood.emoji] || 0) / totalEntries * 100 : 0
Percentage(count, totalEntries) ==
    IF totalEntries > 0 /\ count > 0 THEN Times100(Divide(count, totalEntries))
    ELSE Zero

\* MOOD_OPTIONS.map(mood => ({ ...mood, count, percentage }))
moodStats(es) ==
    [i \in 1..Len(MOOD_OPTIONS) |->
        [mood |-> MOOD_OPTIONS[i],
         count |-> MoodCount(es, MOOD_OPTIONS[i]),
         percentage |-> Percentage(MoodCount(es, MOOD_OPTIONS[i]), Len(es))]]

\* the entries of the list: any of the five moods
DistEntries == [date : {ParseDate(StatsDay)}, mood : Moods]
DistLists == UNION {[1..n -> DistEntries] : n \in 0..MaxEntries}

InitDist ==
    /\ rows = {}
    /\ nextId = 1
    /\ now = TicksPerDay * StatsDay
    /\ tz = 0
    /\ res = NoResponse
    /\ run = NoRun
    /\ req = [p \in Procs |-> NoRequest]
    /\ entries \in DistLists
    /\ stats = NoStats
    /\ client = NoClient

RenderDistribution ==
    /\ ~stats.rendered
    /\ stats' = [rendered |-> TRUE, moodStats |-> moodStats(entries)]
    /\ UNCHANGED <<rows, nextId, now, tz, res, run, req, entries, client>>

NextDist == RenderDistribution

SpecDist == InitDist /\ [][NextDist]_vars

\* ================================================================= claims
SamePair(r1, r2) == r1.user_id = r2.user_id /\ r1.date = r2.date

\* the local calendar day at the instant t, where local time is off
\* quarter-days ahead of UTC
Today(t, off) == (t * MsPerTick + off * MsPerTick) \div MsPerDay

\* C1: after any sequence of createMoodEntry, updateMoodEntry and
\* deleteMoodEntry requests run one at a time, the table holds at most one row
\* for every (user_id, date).
C1_OnePerUserDate ==
    \A r1, r2 \in rows : SamePair(r1, r2) => r1 = r2

\* a createMoodEntry has returned row 1 after two rows were inserted: it met
\* its (user_id, date) in the table
C1_Witness ==
    /\ res.op = "create" /\ res.err = "none"
    /\ Cardinality(rows) = 2
    /\ res.out[1].id = 1

\* C2: when createMoodEntry requests for one (user_id, date) run concurrently,
\* their selects and writes interleaving, exactly one row exists for the pair
\* once all of them have completed.
C2_OneRowAfterConcurrentCreates ==
    (\A p \in Procs : req[p].pc = "idle") =>
        \A r1, r2 \in rows : SamePair(r1, r2) => r1 = r2

\* C3, with the notes that are stored as null given as a parameter
C3_ReadBack(nullNotes) ==
    (/\ res.op = "byDate"
     /\ run.n >= 1
     /\ res.in.user_id = run.user_id
     /\ res.in.date = run.date) =>
        /\ Cardinality({r \in rows : r.user_id = run.user_id /\ r.date = run.date}) = 1
        /\ Len(res.out) = 1
        /\ res.out[1].id = run.id
        /\ res.out[1].created_at = run.created_at
        /\ res.out[1].mood = run.mood
        /\ res.out[1].note = IF run.note \in nullNotes THEN Null ELSE run.note

\* C3 (as claimed): after N >= 1 createMoodEntry requests with the same
\* (user_id, date) one after another, getMoodEntryByDate returns the single
\* row, with the id and created_at the first request returned and the mood and
\* note of the N-th request, the note being null when that request omits it
\* or passes null.
C3_AsClaimed == C3_ReadBack({Undefined, Null})

\* C3 (amended): the same, the note being null when the N-th request omits it,
\* passes null or passes the empty string.
C3_UpsertRepeated == C3_ReadBack({Undefined, Null, ""})

\* the read follows a run of MaxRun requests, the last with an empty note,
\* written later than the row was created
C3_Witness ==
    /\ res.op = "byDate"
    /\ run.n = MaxRun
    /\ res.in.user_id = run.user_id /\ res.in.date = run.date
    /\ run.note = ""
    /\ Len(res.out) = 1
    /\ res.out[1].created_at < res.out[1].updated_at

\* C4: createMoodEntry with a date after the server's current calendar day
\* fails with the future-date error and writes nothing, at every time of day
\* and for every offset of the server's local time from UTC.
C4_FutureDateRejected ==
    [][(/\ Idle
        /\ res'.op = "create"
        /\ res'.in.date > Today(now, tz)) =>
            (res'.err = "future" /\ rows' = rows)]_vars

\* C5: getMoodEntries never returns a row of another user_id than the
\* requested one.
C5_OnlyOwnRows ==
    res.op = "list" =>
        \A i \in 1..Len(res.out) : res.out[i].user_id = res.in.user_id

\* rows are returned while another user has a row on the date of one of them
C5_Witness ==
    /\ res.op = "list"
    /\ \E i \in 1..Len(res.out) : \E r \in rows :
          r.user_id # res.in.user_id /\ ParseDate(r.date) = res.out[i].date

InRange(d, in) ==
    /\ (in.start_date # Absent => in.start_date[1] <= d)
    /\ (in.end_date # Absent => d <= in.end_date[1])

\* C6: getMoodEntries returns exactly the rows of the requested user whose
\* date is in the inclusive range, each once, and the empty sequence, not an
\* error, when the range is empty or nothing matches.
C6_ExactRange ==
    res.op = "list" =>
        /\ res.err = "none"
        /\ \A i \in 1..Len(res.out) :
              /\ \E r \in rows : r.id = res.out[i].id /\ r.user_id = res.in.user_id
              /\ res.in.start_date # Absent =>
                    ParseDate(res.in.start_date[1]) <= res.out[i].date
              /\ res.in.end_date # Absent =>
                    res.out[i].date <= ParseDate(res.in.end_date[1])
        /\ \A i, j \in 1..Len(res.out) : i # j => res.out[i].id # res.out[j].id
        /\ \A r \in rows :
              (r.user_id = res.in.user_id /\ InRange(r.date, res.in)) =>
                  \E i \in 1..Len(res.out) : res.out[i] = [r EXCEPT !.date = ParseDate(r.date)]
        /\ (/\ res.in.start_date # Absent
            /\ res.in.end_date # Absent
            /\ res.in.start_date[1] > res.in.end_date[1]) => res.out = <<>>

\* a range with both ends given returns a row on its first day while the user
\* has a row outside it
C6_Witness ==
    /\ res.op = "list"
    /\ res.in.start_date # Absent /\ res.in.end_date # Absent
    /\ \E i \in 1..Len(res.out) : res.out[i].date = ParseDate(res.in.start_date[1])
    /\ \E r \in rows : r.user_id = res.in.user_id /\ ~InRange(r.date, res.in)

\* C7: the sequence getMoodEntries returns is sorted by date descending,
\* whatever the order the rows were inserted in.
C7_SortedDesc ==
    res.op = "list" =>
        \A i \in 1..(Len(res.out) - 1) : res.out[i].date >= res.out[i + 1].date

\* two rows are returned, the one inserted first having the later date
C7_Witness ==
    /\ res.op = "list"
    /\ Len(res.out) = 2
    /\ res.out[1].id < res.out[2].id
    /\ res.out[1].date > res.out[2].date

\* C8: getMoodEntryByDate returns null, without failing, when no row has the
\* requested user_id and date, and otherwise a row with that user_id and date.
C8_ByDate ==
    res.op = "byDate" =>
        /\ res.err = "none"
        /\ IF \A r \in rows : ~(r.user_id = res.in.user_id /\ r.date = res.in.date)
           THEN res.out = <<>>
           ELSE /\ Len(res.out) = 1
                /\ res.out[1].user_id = res.in.user_id
                /\ res.out[1].date = ParseDate(res.in.date)

\* null is returned while another user has a row on that date
C8_Witness ==
    /\ res.op = "byDate"
    /\ res.out = <<>>
    /\ \E r \in rows : r.user_id # res.in.user_id /\ r.date = res.in.date

\* C9: updateMoodEntry with an id no row has fails with 'not found' and leaves
\* every row unchanged.
C9_UpdateMissing ==
    [][(/\ Idle
        /\ res'.op = "update"
        /\ \A r \in rows : r.id # res'.in.id) =>
            (res'.err = "notfound" /\ rows' = rows)]_vars

\* an update was refused while the table holds rows
C9_Witness ==
    /\ res.op = "update"
    /\ res.err = "notfound"
    /\ rows # {}

\* C10: updateMoodEntry on an existing row changes only the fields the request
\* supplies: an omitted mood or note stays, a null note is stored as null, and
\* nothing but updated_at changes when neither is supplied; no other row changes.
C10_UpdateFrame ==
    [][(/\ Idle
        /\ res'.op = "update"
        /\ res'.err = "none") =>
            /\ Cardinality(rows') = Cardinality(rows)
            /\ \A r \in rows :
                  IF r.id # res'.in.id
                  THEN r \in rows'
                  ELSE \E q \in rows' :
                          /\ q.id = r.id
                          /\ q.user_id = r.user_id
                          /\ q.date = r.date
                          /\ q.created_at = r.created_at
                          /\ q.mood = IF res'.in.mood = Undefined THEN r.mood
                                      ELSE res'.in.mood
                          /\ q.note = IF res'.in.note = Undefined THEN r.note
                                      ELSE res'.in.note
                          /\ res'.out = <<[q EXCEPT !.date = ParseDate(q.date)]>>]_vars

\* an update that supplies no field has returned a row that keeps its note,
\* another row being in the table
C10_Witness ==
    /\ res.op = "update"
    /\ res.err = "none"
    /\ Cardinality(rows) = 2
    /\ res.in.mood = Undefined
    /\ res.in.note = Undefined
    /\ res.out[1].note = "ok"

\* C12: deleteMoodEntry with an id no row has fails with 'not found', never
\* returning success, and leaves the table unchanged; so does a second delete
\* of an id that was deleted before.
C12_DeleteMissing ==
    [][(/\ Idle
        /\ res'.op = "delete"
        /\ \A r \in rows : r.id # res'.in.id) =>
            (res'.err = "notfound" /\ rows' = rows)]_vars

\* a delete was refused for an id the serial has given out, which no row has
\* any more, another row being in the table
C12_Witness ==
    /\ res.op = "delete"
    /\ res.err = "notfound"
    /\ res.in.id < nextId
    /\ rows # {}

\* C13: a successful deleteMoodEntry(id) removes the row with that id and no
\* other: every other row is still in the table, unchanged, and no row is added.
C13_DeleteFrame ==
    [][(/\ Idle
        /\ res'.op = "delete"
        /\ res'.err = "none") =>
            /\ \E r \in rows : r.id = res'.in.id
            /\ \A q \in rows' : q.id # res'.in.id /\ q \in rows
            /\ \A r \in rows : r.id # res'.in.id => r \in rows']_vars

\* a delete has succeeded and left the other row in the table
C13_Witness ==
    /\ res.op = "delete"
    /\ res.err = "none"
    /\ \E r \in rows : r.id # res.in.id

\* C14: createMoodEntry for (u, d), on its insert path and on its overwrite
\* path, leaves every row of another (user_id, date) in the table, unchanged.
C14_CreateFrame ==
    [][(/\ Idle
        /\ res'.op = "create") =>
            \A r \in rows :
                (r.user_id # res'.in.user_id \/ r.date # res'.in.date) =>
                    r \in rows']_vars

\* a createMoodEntry has overwritten a row while another user has a row on the
\* same date
C14_Witness ==
    /\ res.op = "create"
    /\ res.err = "none"
    /\ res.out[1].id < nextId - 1
    /\ \E r \in rows : r.user_id # res.in.user_id /\ r.date = res.in.date

\* C16: every inserted row gets an id that no row, in the table or deleted
\* from it, has had: all ids given out so far are below the serial, a new row
\* gets the serial's value and the serial moves past it; no two rows share an
\* id.
C16_FreshIds ==
    [][/\ \A r \in rows : r.id < nextId
       /\ nextId' >= nextId
       /\ \A q \in rows' :
             (\A r \in rows : r.id # q.id) => (nextId <= q.id /\ q.id < nextId')
       /\ \A q1, q2 \in rows' : q1.id = q2.id => q1 = q2]_vars

\* a createMoodEntry has inserted row 2 into the table that row 1 was deleted
\* from
C16_Witness ==
    /\ res.op = "create"
    /\ res.err = "none"
    /\ res.out[1].id = 2
    /\ nextId = 3
    /\ Cardinality(rows) = 1
    /\ res.out[1].created_at = res.out[1].updated_at

\* C11: through createMoodEntry requests, the overwrite path included, and
\* updateMoodEntry requests, a row keeps its id, user_id, date and created_at
\* for as long as it is in the table.
C11_ImmutableFields ==
    [][\A r \in rows : \A q \in rows' :
          q.id = r.id =>
              /\ q.user_id = r.user_id
              /\ q.date = r.date
              /\ q.created_at = r.created_at]_vars

\* an update that supplies a mood has returned a row written later than it
\* was created
C11_Witness ==
    /\ res.op = "update"
    /\ res.err = "none"
    /\ res.in.mood # Undefined
    /\ res.out[1].created_at < res.out[1].updated_at

\* C15: every successful mutation of an existing row, by the overwrite path of
\* createMoodEntry or by updateMoodEntry, even one that supplies no field,
\* leaves created_at as it was and, when the clock has advanced since the row
\* was last written, makes updated_at strictly greater than it was.
C15_UpdatedAtRefreshed ==
    [][(/\ Idle
        /\ res'.op \in {"create", "update"}
        /\ res'.err = "none") =>
            \A r \in rows :
                r.id = res'.out[1].id =>
                    \E q \in rows' :
                        /\ q.id = r.id
                        /\ q.created_at = r.created_at
                        /\ res'.out[1].updated_at = q.updated_at
                        /\ NowMs > r.updated_at => q.updated_at > r.updated_at]_vars

\* an update that supplies no field has returned a row written later than it
\* was created
C15_Witness ==
    /\ res.op = "update"
    /\ res.err = "none"
    /\ res.in.mood = Undefined
    /\ res.in.note = Undefined
    /\ res.out[1].created_at < res.out[1].updated_at

\* the number of entries with the mood m, and the places in the declaration
\* order of the moods that have the greatest number
EntriesWithMood(m) == Cardinality({k \in DOMAIN entries : entries[k].mood = m})
TiedForMost ==
    {i \in DOMAIN MOOD_OPTIONS :
        \A j \in DOMAIN MOOD_OPTIONS :
            EntriesWithMood(MOOD_OPTIONS[j]) <= EntriesWithMood(MOOD_OPTIONS[i])}

\* C17 (as claimed): when several moods share the greatest count, the most
\* common mood MoodStats shows is the first of them in the declaration order
\* Happy, Sad, Angry, Excited, Neutral.
C17_FirstOfTied ==
    (stats.rendered /\ Len(entries) > 0) =>
        \E i \in TiedForMost :
            /\ \A j \in TiedForMost : i <= j
            /\ stats.mostCommonMood = MOOD_OPTIONS[i]

\* C17 (amended): when several moods share the greatest count, the most common
\* mood MoodStats shows is the last of them in the declaration order.
C17_LastOfTied ==
    (stats.rendered /\ Len(entries) > 0) =>
        \E i \in TiedForMost :
            /\ \A j \in TiedForMost : j <= i
            /\ stats.mostCommonMood = MOOD_OPTIONS[i]

\* MoodStats has rendered a list in which Happy and Angry share the greatest
\* count
C17_Witness ==
    /\ stats.rendered
    /\ EntriesWithMood("Happy") = EntriesWithMood("Angry")
    /\ EntriesWithMood("Angry") > EntriesWithMood("Neutral")

\* the entries list has an entry dated the calendar day d
HasEntryOn(d) == \E k \in DOMAIN entries : entries[k].date = ParseDate(d)

\* the number of calendar days in a row, counted backwards from the day d
\* and including it, that the list has an entry for
DaysInARow(d) ==
    CHOOSE n \in 0..Len(entries) :
        /\ \A j \in 0..(n - 1) : HasEntryOn(d - j)
        /\ ~HasEntryOn(d - n)

\* C18: for every list of entries the streak MoodStats computes is the number
\* of consecutive calendar days, counted backwards from today and including
\* it, for which the list has an entry; it is 0 when no entry is dated today.
C18_StreakIsDaysInARow ==
    stats.rendered => stats.currentStreak = DaysInARow(Today(now, tz))

\* the entry e is in the sequence s
InSeq(e, s) == \E k \in DOMAIN s : s[k] = e

\* C19: an entry is in 'this week' exactly when its date is on or after today
\* minus 7 days, and in 'previous week' exactly when its date is on or after
\* today minus 14 days and before today minus 7 days, whatever the time of
\* day; no entry is in both.
C19_WeeksByDate ==
    stats.rendered =>
        \A k \in DOMAIN entries :
            LET e == entries[k]
                d == e.date \div MsPerDay
                today == Today(now, tz)
            IN  /\ InSeq(e, stats.thisWeekEntries) <=> d >= today - 7
                /\ InSeq(e, stats.previousWeekEntries) <=>
                      (d >= today - 14 /\ d < today - 7)
                /\ ~(InSeq(e, stats.thisWeekEntries) /\ InSeq(e, stats.previousWeekEntries))

\* the sum of the scores Happy 5, Excited 4, Neutral 3, Sad 2, Angry 1 over
\* the entries of s
RECURSIVE SumOfScores(_)
SumOfScores(s) ==
    IF s = <<>> THEN 0
    ELSE (CASE Head(s).mood = "Happy" -> 5
            [] Head(s).mood = "Excited" -> 4
            [] Head(s).mood = "Neutral" -> 3
            [] Head(s).mood = "Sad" -> 2
            [] Head(s).mood = "Angry" -> 1) + SumOfScores(Tail(s))

\* the average score of s is greater than the average score of u, the average
\* of no entries being 0
AverageGreater(s, u) ==
    IF s = <<>> THEN FALSE
    ELSE IF u = <<>> THEN SumOfScores(s) > 0
    ELSE SumOfScores(s) * Len(u) > SumOfScores(u) * Len(s)

\* C20: the trend is 'up' exactly when the average score of this week's
\* entries is greater than that of the previous week's, 'down' exactly when it
\* is smaller and 'stable' exactly when they are equal, with the scores
\* Happy 5, Excited 4, Neutral 3, Sad 2, Angry 1 and the average of no
\* entries 0.
C20_Trend ==
    stats.rendered =>
        /\ stats.trendDirection \in {"up", "down", "stable"}
        /\ stats.trendDirection = "up" <=>
              AverageGreater(stats.thisWeekEntries, stats.previousWeekEntries)
        /\ stats.trendDirection = "down" <=>
              AverageGreater(stats.previousWeekEntries, stats.thisWeekEntries)

\* the trend is stable between a week of two entries and a week of one, of
\* different moods
C20_Witness ==
    /\ stats.rendered
    /\ stats.trendDirection = "stable"
    /\ Len(stats.thisWeekEntries) = 2
    /\ Len(stats.previousWeekEntries) = 1
    /\ stats.thisWeekEntries[1].mood # stats.previousWeekEntries[1].mood

\* C23: createMoodEntry with the date of the server's current calendar day, or
\* of an earlier day, is never rejected by the future-date guard, at any time
\* of day.
C23_TodayAccepted ==
    [][(/\ Idle
        /\ res'.op = "create"
        /\ res'.in.date <= Today(now, tz)) => res'.err # "future"]_vars

\* a createMoodEntry for the current day was accepted at 06:00 local time
C23_Witness ==
    /\ res.op = "create"
    /\ res.err = "none"
    /\ res.in.date = Today(now, tz)
    /\ tz = 1
    /\ now = TicksPerDay * res.in.date

\* C30: createMoodEntry stores a null note when the request's note is omitted,
\* null or the empty string, and the request's note otherwise, on the insert
\* path and on the overwrite path alike; the row it wrote never has an
\* empty-string note.
C30_NullNote ==
    [][(/\ Idle
        /\ res'.op = "create"
        /\ res'.err = "none") =>
            \E q \in rows' :
                /\ q.id = res'.out[1].id
                /\ q.note # ""
                /\ q.note = res'.out[1].note
                /\ q.note = IF res'.in.note \in {Undefined, Null, ""}
                            THEN Null ELSE res'.in.note]_vars

\* a createMoodEntry with an empty-string note has overwritten row 1 and
\* returned a null note
C30_Witness ==
    /\ res.op = "create"
    /\ res.err = "none"
    /\ res.in.note = ""
    /\ res.out[1].note = Null
    /\ res.out[1].id = 1
    /\ nextId = 3

\* the calendar day of the entry at position i (from 0) of the entries sorted
\* by date descending
DayAtPosition(i) ==
    CHOOSE d \in {entries[k].date \div MsPerDay : k \in DOMAIN entries} :
        /\ Cardinality({k \in DOMAIN entries : entries[k].date \div MsPerDay > d}) <= i
        /\ i < Cardinality({k \in DOMAIN entries : entries[k].date \div MsPerDay >= d})

\* C25: in the streak scan over the entries sorted by date descending, the
\* entry at position i is counted only if its date is today minus i days, and
\* the first entry that is not on its expected day ends the count: the streak
\* is the number of leading positions whose entry is on its expected day.
C25_ScanStopsAtFirstMiss ==
    stats.rendered =>
        /\ stats.currentStreak \in 0..Len(entries)
        /\ \A i \in 0..(stats.currentStreak - 1) :
              DayAtPosition(i) = Today(now, tz) - i
        /\ stats.currentStreak < Len(entries) =>
              DayAtPosition(stats.currentStreak) # Today(now, tz) - stats.currentStreak

\* C24: when two createMoodEntry requests for a (user_id, date) that has a row
\* run concurrently, each write that finds the row still in the table leaves
\* one row for the pair, with its id and created_at, and with the mood and the
\* note of the request that wrote, never the mood of one request with the
\* note of another; so after both the row carries the last write.
C24_LastWriteWins ==
    [][\A p \in Procs :
          (/\ req[p].pc = "write"
           /\ req'[p].pc = "idle"
           /\ Len(req[p].existing) > 0
           /\ \E r \in rows : r.id = req[p].existing[1].id) =>
              /\ Cardinality(rows') = Cardinality(rows)
              /\ \E q \in rows' :
                    /\ q.id = req[p].existing[1].id
                    /\ q.created_at = req[p].existing[1].created_at
                    /\ q.user_id = req[p].in.user_id
                    /\ q.date = req[p].in.date
                    /\ q.mood = req[p].in.mood
                    /\ q.note = (IF req[p].in.note \in {Undefined, Null, ""}
                                 THEN Null ELSE req[p].in.note)
                    /\ res'.out = <<[q EXCEPT !.date = ParseDate(q.date)]>>
                    /\ rows' = (rows \ {r \in rows : r.id = q.id}) \cup {q}]_vars

\* one of two requests that both read the row has overwritten it, with
\* another mood and another note than the request still in flight will write
C24_Witness ==
    /\ res.op = "create"
    /\ res.err = "none"
    /\ \E p \in Procs :
          /\ req[p].pc = "write"
          /\ Len(req[p].existing) > 0
          /\ req[p].existing[1].id = res.out[1].id
          /\ req[p].existing[1].mood # res.out[1].mood
          /\ req[p].in.mood # res.in.mood
          /\ req[p].in.note # res.in.note
          /\ \E r \in rows : r.id = res.out[1].id /\ r.mood = res.in.mood

\* C26: an updateMoodEntry request either returns the updated row or fails
\* with 'not found', and in no other way, also when a deleteMoodEntry for its
\* id completes between its existence check and its write.
C26_UpdateOrNotFound ==
    res.op = "update" => res.err \in {"none", "notfound"}

\* C27: a createMoodEntry request that passes the future-date guard returns a
\* row for its (user_id, date) with its mood and note, and that row is in the
\* table when the request completes, also when a deleteMoodEntry removes the
\* pair's row between the request's select and its write.
C27_CreateReturnsStoredRow ==
    [][\A p \in Procs :
          (req[p].pc = "write" /\ req'[p].pc = "idle") =>
              /\ res'.err = "none"
              /\ \E q \in rows' :
                    /\ q.user_id = req[p].in.user_id
                    /\ q.date = req[p].in.date
                    /\ q.mood = req[p].in.mood
                    /\ res'.out = <<[q EXCEPT !.date = ParseDate(q.date)]>>]_vars

\* C22: a createMoodEntry request whose date string is malformed, be it of
\* another shape than YYYY-MM-DD or of that shape and naming no calendar date,
\* or whose mood is none of the five tokens, is rejected with a validation
\* error before the store is read or written.
C22_InvalidInputRejected ==
    [][(/\ Idle
        /\ res'.op = "create"
        /\ \/ res'.in.date \in {NoSuchDay, Malformed}
           \/ res'.in.mood \notin Moods) =>
            (res'.err = "validation" /\ rows' = rows)]_vars

\* C28: the entry id the calendar form sends to updateMoodEntry belongs to an
\* entry whose date is the date selected when the form was submitted, so a save
\* creates or changes only the entry of the selected date, also with lookups
\* pending or answered out of order.
C28_SaveTargetsSelectedDate ==
    [][\A r \in client'.pending \ client.pending :
        (r.kind = "update" /\ r.from = "form") =>
            /\ r.date = client.selectedDate
            /\ client.selectedEntry # <<>>
            /\ r.id = client.selectedEntry[1].id
            /\ client.selectedEntry[1].date = ParseDate(client.selectedDate)]_vars

\* C29: when no request of the App component is in flight, selectedEntry is
\* the store's entry of (demo user, selected date): null exactly when the
\* store has none for that date, and otherwise that date's entry.
StoreEntry(date) == {ToEntry(r) : r \in SelectByUserDate(rows, userId, date)}
C29_SelectedEntryIsStoreEntry ==
    (client.selectedDate \in ClientDates /\ client.pending = {}) =>
        IF client.selectedEntry = <<>>
        THEN StoreEntry(client.selectedDate) = {}
        ELSE client.selectedEntry[1] \in StoreEntry(client.selectedDate)

\* the percentages as exact numbers: a percentage times 2^FractionBits
FractionBits == 60
Fixed(x) == BigShl(x.m, x.e + FractionBits - (MantissaBits - 1))
Hundred == <<0, 0, 100 * 2^(FractionBits - 2 * LimbBits)>>
\* 2^-45, the rounding error one hundred percent can collect
Rounding == BigOfNat(2^(FractionBits - 45))
RECURSIVE SumOfCounts(_)
SumOfCounts(ms) ==
    IF ms = <<>> THEN 0 ELSE Head(ms).count + SumOfCounts(Tail(ms))
RECURSIVE SumOfPercentages(_)
SumOfPercentages(ms) ==
    IF ms = <<>> THEN BigOfNat(0)
    ELSE BigAdd(Fixed(Head(ms).percentage), SumOfPercentages(Tail(ms)))

\* C21 as claimed: the counts add up to the number of entries and the
\* percentages add up to exactly 100 for a non-empty list; every percentage
\* is 0 for the empty list.
C21_SumIsHundred ==
    stats.rendered =>
        /\ SumOfCounts(stats.moodStats) = Len(entries)
        /\ IF Len(entries) > 0
           THEN SumOfPercentages(stats.moodStats) = Hundred
           ELSE \A i \in 1..Len(stats.moodStats) :
                    stats.moodStats[i].percentage = Zero

\* C21, amended: the counts add up to the number of entries and the
\* percentages add up to 100 within floating-point rounding (the sum differs
\* from 100 by at most 2^-45) for a non-empty list; every percentage is 0 for
\* the empty list.
C21_SumWithinRounding ==
    stats.rendered =>
        /\ SumOfCounts(stats.moodStats) = Len(entries)
        /\ IF Len(entries) > 0
           THEN /\ BigLeq(SumOfPercentages(stats.moodStats),
                          BigAdd(Hundred, Rounding))
                /\ BigLeq(Hundred,
                          BigAdd(SumOfPercentages(stats.moodStats), Rounding))
           ELSE \A i \in 1..Len(stats.moodStats) :
                    stats.moodStats[i].percentage = Zero

\* rendered on three entries, one of a mood and two of another: the
\* percentages are rounded and their sum is not 100
C21_Witness ==
    /\ stats.rendered
    /\ Len(entries) = 3
    /\ \E i, j \in 1..Len(stats.moodStats) :
        stats.moodStats[i].count = 1 /\ stats.moodStats[j].count = 2
    /\ SumOfPercentages(stats.moodStats) # Hundred

====
